---- MODULE Spec2Model ----
(***************************************************************************)
(* Model of the card wallet of src/ExpandableCard.tsx: the App component   *)
(* (card collection, NFC capability check, scan workflow, deleteCard) and  *)
(* the ExpandableCard item (expand toggle, delete confirmation surface,    *)
(* delete animation).                                                      *)
(*                                                                         *)
(* React state is modelled in two layers.  The state variables (cards,     *)
(* isNfcSupported, scanModalVisible, expanded, modalVisible) hold the      *)
(* values set by the setters.  The r-variables (rCards, rSupported,        *)
(* rExpanded) hold the values the handlers of the last render closed over: *)
(* a handler reads what its closure captured, and Render refreshes the     *)
(* closures.  A functional updater (setCards(prev => ...)) reads the state *)
(* itself.  Under Spec every handler or continuation runs as an event of   *)
(* its own and React renders before the next one; under BatchSpec the      *)
(* handlers of one item may run up to MaxBatch times in one batch of       *)
(* updates, before React renders.                                          *)
(* FairSpec is the view with the cards left alone, with the fairness of    *)
(* React's rendering and of the NFC service's answers.                     *)
(*                                                                         *)
(* Text is a sequence of character codes.                                  *)
(***************************************************************************)
EXTENDS Integers, Sequences, FiniteSets, TLC

\* ------------------------------------------------------------------ bounds
MaxCards == 2
MaxRuns == 2
MaxAnims == 1
MaxBatch == 2

Ids == 1..MaxCards
Runs == 1..MaxRuns

VARIABLES
  cards,             \* App: useState cards
  isNfcSupported,    \* App: useState isNfcSupported
  scanModalVisible,  \* App: useState scanModalVisible
  rCards,            \* cards as closed over by deleteCard at the last render
  rSupported,        \* isNfcSupported as closed over by openScanModal
  expanded,          \* item k: useState expanded
  rExpanded,         \* item k: expanded as closed over by toggleExpand
  modalVisible,      \* item k: useState modalVisible
  flips,             \* item k: toggleExpand was invoked an odd number of times
  anim,              \* item k: the running delete animation and its callback
  nfcPc,             \* position of the mount effect initializeNfc
  started,           \* number of NfcManager.start() calls
  run,               \* the scanNfc runs
  batch,             \* handler steps taken since the last render
  last               \* the handler step taken last and the notice it raised

vars == <<cards, isNfcSupported, scanModalVisible, rCards, rSupported,
          expanded, rExpanded, modalVisible, flips, anim, nfcPc, started, run,
          batch, last>>

\* -------------------------------------------------------------------- text
\* 'No readable data'
NoReadableData ==
  <<78, 111, 32, 114, 101, 97, 100, 97, 98, 108, 101, 32, 100, 97, 116, 97>>

\* Alert.alert messages
NoNotice == "none"
NotSupportedNotice == "NFC is not supported on this device"
ScanFailedNotice == "Failed to scan NFC tag"

\* ------------------------------------------------------------- NFC service
\* NDEF text payloads: status byte (low 6 bits: length of the language
\* code), language code, text.  PayloadHi is 'en' + 'hi'; PayloadH carries
\* numbers above 255, which Uint8Array wraps, and is 'en' + 'h'.
PayloadHi == <<2, 101, 110, 104, 105>>
PayloadH == <<258, 357, 110, 104>>

NoTag == [present |-> FALSE]
TagNoMessage == [present |-> TRUE, hasMessage |-> FALSE]
TagOf(records) ==
  [present |-> TRUE, hasMessage |-> TRUE, ndefMessage |-> records]

\* what NfcManager.getTag() may resolve to
Tags == {NoTag, TagNoMessage, TagOf(<<>>), TagOf(<<PayloadH>>),
         TagOf(<<PayloadH, PayloadHi>>)}

\* new Uint8Array(payload)
Uint8Array(payload) == [i \in 1..Len(payload) |-> payload[i] % 256]

\* Ndef.text.decodePayload: skip the status byte and the language code
DecodePayload(data) ==
  LET languageCodeLength == IF Len(data) = 0 THEN 0 ELSE data[1] % 64
  IN  SubSeq(data, languageCodeLength + 2, Len(data))

\* ------------------------------------------------------------------- cards
SeedCard == [id |-> 1, title |-> "Kart 1",
             details |-> "Bu, birinci kartin detaylaridir."]

\* mutant of FirstRecord: the last record is decoded
LastRecord(ndefRecords) == ndefRecords[Len(ndefRecords)]

\* the record of the tag whose payload is decoded
FirstRecord(ndefRecords) == ndefRecords[1]

HasRecords(tag) == tag.hasMessage /\ Len(tag.ndefMessage) > 0

\* parsedData of scanNfc
ParsedData(tag) ==
  IF HasRecords(tag)
    THEN DecodePayload(Uint8Array(FirstRecord(tag.ndefMessage)))
    ELSE NoReadableData

\* mutant of NewId: the length without the + 1
NewIdLength(prev) == Len(prev)

\* the identifier generated for the appended card
NewId(prev) == Len(prev) + 1

\* the updater passed to setCards by scanNfc
AppendCard(prev, parsedData) ==
  Append(prev, [title |-> "New NFC Card",
                details |-> "Card scanned successfully",
                nfcData |-> parsedData,
                id |-> NewId(prev)])

RECURSIVE FilterKeeps(_, _)
\* mutant of Filter: === in place of !==
FilterKeeps(list, id) ==
  IF list = <<>> THEN <<>>
  ELSE IF Head(list).id = id
         THEN <<Head(list)>> \o FilterKeeps(Tail(list), id)
         ELSE FilterKeeps(Tail(list), id)

RECURSIVE Filter(_, _)
\* cards.filter((card) => card.id !== id)
Filter(list, id) ==
  IF list = <<>> THEN <<>>
  ELSE IF Head(list).id # id
         THEN <<Head(list)>> \o Filter(Tail(list), id)
         ELSE Filter(Tail(list), id)

IdsOf(list) == {list[i].id : i \in 1..Len(list)}

\* ------------------------------------------------------------------- state
\* anim[k]: no delete animation of item k is running
NoAnim == [running |-> FALSE, snap |-> <<>>, live |-> FALSE, rank |-> 0]

\* a run of scanNfc.  before and deleted are kept while the run is in
\* flight: whether deleteCard has run since scanNfc was called, and until
\* then the collection when scanNfc was called.
IdleRun == [pc |-> "idle", cancels |-> 0, before |-> <<>>, deleted |-> FALSE]

InFlight(r) == run[r].pc \in {"requestTechnology", "getTag"}

\* last: the handler step taken (for a step that ends a scanNfc run, how
\* the run ended), its argument (item id or run), the notice it raised
\* through Alert.alert, and the id it passed to deleteCard (0 if it did not
\* call deleteCard), and the tag getTag resolved to
Step(op, arg, notice, del) ==
  [op |-> op, arg |-> arg, notice |-> notice, del |-> del, tag |-> NoTag]

\* the step in which getTag resolved to tag
TagStep(op, arg, notice, tag) == [Step(op, arg, notice, 0) EXCEPT !.tag = tag]

Init ==
  /\ cards = <<SeedCard>>
  /\ isNfcSupported = FALSE
  /\ scanModalVisible = FALSE
  /\ rCards = <<SeedCard>>
  /\ rSupported = FALSE
  /\ expanded = [k \in Ids |-> FALSE]
  /\ rExpanded = [k \in Ids |-> FALSE]
  /\ modalVisible = [k \in Ids |-> FALSE]
  /\ flips = [k \in Ids |-> FALSE]
  /\ anim = [k \in Ids |-> NoAnim]
  /\ nfcPc = "mount"
  /\ started = 0
  /\ run = [r \in Runs |-> IdleRun]
  /\ batch = 0
  /\ last = Step("mount", 0, NoNotice, 0)

\* ------------------------------------------------------------------ render
\* item k is on screen: its handlers can be invoked
Mounted(k) == k \in IdsOf(rCards)

\* a delete confirmation surface covers the screen
ModalOpen == \E k \in Ids : modalVisible[k]

\* a handler or continuation has run: a render is due
Handled == batch' = batch + 1

\* the handler runs as an event of its own
Event == batch = 0

\* the handler runs in the current batch of updates
InBatch == batch < MaxBatch

\* React re-renders App and its items: the handlers close over the current
\* state; an item whose card is gone is unmounted and its state is dropped
\* (a later card with the same key mounts a fresh item)
Render ==
  /\ batch > 0
  /\ batch' = 0
  /\ rCards' = cards
  /\ rSupported' = isNfcSupported
  /\ expanded' = [k \in Ids |-> k \in IdsOf(cards) /\ expanded[k]]
  /\ rExpanded' = expanded'
  /\ modalVisible' = [k \in Ids |-> k \in IdsOf(cards) /\ modalVisible[k]]
  /\ flips' = [k \in Ids |-> k \in IdsOf(cards) /\ flips[k]]
  /\ anim' = [k \in Ids |->
               IF k \in IdsOf(cards) THEN anim[k]
               ELSE [anim[k] EXCEPT !.live = FALSE]]
  /\ last' = Step("render", 0, NoNotice, 0)
  /\ UNCHANGED <<cards, isNfcSupported, scanModalVisible, nfcPc, started, run>>

\* ----------------------------------------------------------- card item
\* deleteCard(id) as closed over a render whose cards were snap: the value
\* it passes to setCards
DeleteCard(snap, id) == Filter(snap, id)

\* every run in flight sees that deleteCard has run
NoteDeleted(runs) ==
  [r \in Runs |-> IF InFlight(r)
                    THEN [runs[r] EXCEPT !.deleted = TRUE, !.before = <<>>]
                  ELSE runs[r]]

\* The completion callback of confirmDelete's Animated.parallel, for the
\* animation a of item k: onDelete(id), then closeModal().  Animated calls
\* it when the animation ends, and also when the animation is stopped by a
\* new animation started on heightAnim.  closeModal is a no-op if the item
\* has been unmounted.
Callback(k, a, visible) ==
  /\ cards' = DeleteCard(a.snap, k)
  /\ modalVisible' = IF a.live THEN [visible EXCEPT ![k] = FALSE] ELSE visible
  /\ run' = NoteDeleted(run)

\* a running animation of the mounted item k, which a new animation on
\* heightAnim stops
Stops(k) == anim[k].running /\ anim[k].live

\* the animations a once the animation of item k has ended or was stopped:
\* the animations started after it move up
Ended(a, k) ==
  [j \in Ids |-> IF j = k THEN NoAnim
                 ELSE IF a[j].running /\ a[j].rank > a[k].rank
                   THEN [a[j] EXCEPT !.rank = @ - 1]
                 ELSE a[j]]

\* the animations a once item k has started its delete animation, which
\* captures the onDelete of this render
Started(a, k) ==
  [a EXCEPT ![k] = [running |-> TRUE, snap |-> rCards, live |-> TRUE,
                    rank |-> Cardinality({j \in Ids \ {k} : a[j].running})
                               + 1]]

\* the value toggleExpand passes to setExpanded
Toggled(k) == ~rExpanded[k]

\* press on the card header
ToggleExpand(k) ==
  /\ Handled
  /\ Mounted(k) /\ ~ModalOpen
  /\ IF Stops(k)
       THEN /\ Callback(k, anim[k], modalVisible)
            /\ anim' = Ended(anim, k)
            /\ last' = Step("toggleExpand", k, NoNotice, k)
       ELSE /\ UNCHANGED <<cards, modalVisible, run, anim>>
            /\ last' = Step("toggleExpand", k, NoNotice, 0)
  /\ expanded' = [expanded EXCEPT ![k] = Toggled(k)]
  /\ flips' = [flips EXCEPT ![k] = ~@]
  /\ UNCHANGED <<isNfcSupported, scanModalVisible, rCards, rSupported,
                 rExpanded, nfcPc, started>>

\* press on the X of the card header
ShowModal(k) ==
  /\ Handled
  /\ Mounted(k) /\ ~ModalOpen
  /\ modalVisible' = [modalVisible EXCEPT ![k] = TRUE]
  /\ last' = Step("showModal", k, NoNotice, 0)
  /\ UNCHANGED <<cards, isNfcSupported, scanModalVisible, rCards, rSupported,
                 expanded, rExpanded, flips, anim, nfcPc, started, run>>

\* mutant of CloseModal: closing the surface also collapses the card
CloseModalCollapses(k) ==
  /\ Handled
  /\ Mounted(k) /\ modalVisible[k]
  /\ modalVisible' = [modalVisible EXCEPT ![k] = FALSE]
  /\ expanded' = [expanded EXCEPT ![k] = FALSE]
  /\ last' = Step("closeModal", k, NoNotice, 0)
  /\ UNCHANGED <<cards, isNfcSupported, scanModalVisible, rCards, rSupported,
                 rExpanded, flips, anim, nfcPc, started, run>>

\* close button, backdrop press or back request of the confirmation surface
CloseModal(k) ==
  /\ Handled
  /\ Mounted(k) /\ modalVisible[k]
  /\ modalVisible' = [modalVisible EXCEPT ![k] = FALSE]
  /\ last' = Step("closeModal", k, NoNotice, 0)
  /\ UNCHANGED <<cards, isNfcSupported, scanModalVisible, rCards, rSupported,
                 expanded, rExpanded, flips, anim, nfcPc, started, run>>

\* press on Yes: starts the fade/collapse animation, whose callback holds
\* the onDelete of this render.  (At most MaxAnims animations run at a
\* time, and while the callback of an unmounted item with the same key is
\* pending the press is not modelled.)
ConfirmDelete(k) ==
  /\ Handled
  /\ Mounted(k) /\ modalVisible[k]
  /\ anim[k].running => anim[k].live
  /\ Cardinality({j \in Ids \ {k} : anim[j].running}) < MaxAnims
  /\ IF Stops(k)
       THEN /\ Callback(k, anim[k], modalVisible)
            /\ anim' = Started(Ended(anim, k), k)
            /\ last' = Step("confirmDelete", k, NoNotice, k)
       ELSE /\ UNCHANGED <<cards, modalVisible, run>>
            /\ anim' = Started(anim, k)
            /\ last' = Step("confirmDelete", k, NoNotice, 0)
  /\ UNCHANGED <<isNfcSupported, scanModalVisible, rCards, rSupported,
                 expanded, rExpanded, flips, nfcPc, started>>

\* the animation of item k runs to its end.  Every animation lasts 300 ms:
\* the animations end in the order in which they were started.
AnimationEnd(k) ==
  /\ Handled
  /\ anim[k].running /\ anim[k].rank = 1
  /\ Callback(k, anim[k], modalVisible)
  /\ anim' = Ended(anim, k)
  /\ last' = Step("animationEnd", k, NoNotice, k)
  /\ UNCHANGED <<isNfcSupported, scanModalVisible, rCards, rSupported,
                 expanded, rExpanded, flips, nfcPc, started>>

\* ------------------------------------------------------- capability check
\* the mount effect calls initializeNfc, which awaits isSupported()
InitializeNfc ==
  /\ Handled
  /\ nfcPc = "mount"
  /\ nfcPc' = "isSupported"
  /\ last' = Step("initializeNfc", 0, NoNotice, 0)
  /\ UNCHANGED <<cards, isNfcSupported, scanModalVisible, rCards, rSupported,
                 expanded, rExpanded, flips, modalVisible, anim, started, run>>

\* the step in which isSupported() settles with answer
SupportOp(answer) ==
  IF answer = "yes" THEN "isSupported"
  ELSE IF answer = "no" THEN "unsupported"
  ELSE "isSupportedFailed"

\* mutant of IsSupportedSettles: the service is started whatever the answer
IsSupportedSettlesStarts(answer) ==
  /\ Handled
  /\ nfcPc = "isSupported"
  /\ nfcPc' = "start"
  /\ started' = started + 1
  /\ UNCHANGED isNfcSupported
  /\ last' = Step(SupportOp(answer), 0, NoNotice, 0)
  /\ UNCHANGED <<cards, scanModalVisible, rCards, rSupported, expanded,
                 rExpanded, flips, modalVisible, anim, run>>

\* isSupported() settles: "yes", "no" or "throw"
IsSupportedSettles(answer) ==
  /\ Handled
  /\ nfcPc = "isSupported"
  /\ IF answer = "yes"
       THEN /\ nfcPc' = "start"
            /\ started' = started + 1
            /\ UNCHANGED isNfcSupported
       ELSE /\ nfcPc' = "done"
            /\ isNfcSupported' = FALSE
            /\ UNCHANGED started
  /\ last' = Step(SupportOp(answer), 0, NoNotice, 0)
  /\ UNCHANGED <<cards, scanModalVisible, rCards, rSupported, expanded,
                 rExpanded, flips, modalVisible, anim, run>>

\* start() settles: it resolves (ok) or rejects
StartSettles(ok) ==
  /\ Handled
  /\ nfcPc = "start"
  /\ nfcPc' = "done"
  /\ isNfcSupported' = ok
  /\ last' = Step(IF ok THEN "start" ELSE "startFailed", 0, NoNotice, 0)
  /\ UNCHANGED <<cards, scanModalVisible, rCards, rSupported, expanded,
                 rExpanded, flips, modalVisible, anim, started, run>>

\* ----------------------------------------------------------- scan workflow
\* the notice openScanModal raises
OpenNotice(supported) == IF supported THEN NoNotice ELSE NotSupportedNotice

\* mutant of OpenVisible: the return after the alert is missing
OpenVisibleNoReturn(supported, visible) == TRUE

\* the visibility openScanModal leaves
OpenVisible(supported, visible) == IF supported THEN TRUE ELSE visible

\* press on the + of the list footer
OpenScanModal ==
  /\ Handled
  /\ ~ModalOpen
  /\ scanModalVisible' = OpenVisible(rSupported, scanModalVisible)
  /\ last' = Step("openScanModal", 0, OpenNotice(rSupported), 0)
  /\ UNCHANGED <<cards, isNfcSupported, rCards, rSupported, expanded,
                 rExpanded, flips, modalVisible, anim, nfcPc, started, run>>

\* mutant of CancelTechnologyRequest: the session is not released
NoCancel(rec) == rec

\* NfcManager.cancelTechnologyRequest()
CancelTechnologyRequest(rec) == [rec EXCEPT !.cancels = @ + 1]

\* the finally block (its setScanModalVisible(false) is in the actions)
Finally(rec) ==
  [CancelTechnologyRequest(rec) EXCEPT !.pc = "done", !.before = <<>>,
                                       !.deleted = FALSE]

\* the notice of the catch block
CatchNotice == ScanFailedNotice

\* the run whose slot the next call of scanNfc takes
FreeRun(r) ==
  /\ ~InFlight(r)
  /\ \A q \in Runs : q < r => InFlight(q)

\* scanNfc is called (the source has no call site for it: it is taken to be
\* callable at any time) and awaits requestTechnology
ScanNfc(r) ==
  /\ Handled
  /\ FreeRun(r)
  /\ Len(cards) < MaxCards
  /\ run' = [run EXCEPT ![r] = [IdleRun EXCEPT !.pc = "requestTechnology",
                                              !.before = cards]]
  /\ last' = Step("scanNfc", r, NoNotice, 0)
  /\ UNCHANGED <<cards, isNfcSupported, scanModalVisible, rCards, rSupported,
                 expanded, rExpanded, flips, modalVisible, anim, nfcPc, started>>

\* requestTechnology settles
RequestSettles(r, ok) ==
  /\ Handled
  /\ run[r].pc = "requestTechnology"
  /\ IF ok
       THEN /\ run' = [run EXCEPT ![r].pc = "getTag"]
            /\ last' = Step("requestTechnology", r, NoNotice, 0)
            /\ UNCHANGED scanModalVisible
       ELSE /\ run' = [run EXCEPT
                         ![r] = Finally(@)]
            /\ last' = Step("requestFailed", r, CatchNotice, 0)
            /\ scanModalVisible' = FALSE
  /\ UNCHANGED <<cards, isNfcSupported, rCards, rSupported, expanded,
                 rExpanded, flips, modalVisible, anim, nfcPc, started>>

\* getTag rejects
GetTagFails(r) ==
  /\ Handled
  /\ run[r].pc = "getTag"
  /\ run' = [run EXCEPT ![r] = Finally(@)]
  /\ last' = Step("getTagFailed", r, CatchNotice, 0)
  /\ scanModalVisible' = FALSE
  /\ UNCHANGED <<cards, isNfcSupported, rCards, rSupported, expanded,
                 rExpanded, flips, modalVisible, anim, nfcPc, started>>

\* getTag resolves to tag; decodes: whether decodePayload returns rather
\* than throws, when it is called
GetTagSettles(r, tag, decodes) ==
  /\ Handled
  /\ run[r].pc = "getTag"
  /\ \/ /\ ~tag.present
        /\ decodes
        /\ run' = [run EXCEPT ![r] = Finally(@)]
        /\ last' = TagStep("noTag", r, NoNotice, tag)
        /\ UNCHANGED cards
     \/ /\ tag.present /\ HasRecords(tag) /\ ~decodes
        /\ run' = [run EXCEPT ![r] = Finally(@)]
        /\ last' = TagStep("decodeFailed", r, CatchNotice, tag)
        /\ UNCHANGED cards
     \/ /\ tag.present /\ decodes
        /\ Len(cards) < MaxCards
        /\ cards' = AppendCard(cards, ParsedData(tag))
        /\ run' = [run EXCEPT ![r] = Finally(@)]
        /\ last' = TagStep("appended", r, NoNotice, tag)
  /\ scanModalVisible' = FALSE
  /\ UNCHANGED <<isNfcSupported, rCards, rSupported, expanded, rExpanded,
                 flips, modalVisible, anim, nfcPc, started>>

\* ---------------------------------------------------------- specification
Next ==
  \/ Render
  \/ \E k \in Ids : Event /\ ToggleExpand(k)
  \/ \E k \in Ids : Event /\ ShowModal(k)
  \/ \E k \in Ids : Event /\ CloseModal(k)
  \/ \E k \in Ids : Event /\ ConfirmDelete(k)
  \/ \E k \in Ids : Event /\ AnimationEnd(k)
  \/ Event /\ InitializeNfc
  \/ \E answer \in {"yes", "no", "throw"} :
        Event /\ IsSupportedSettles(answer)
  \/ \E ok \in BOOLEAN : Event /\ StartSettles(ok)
  \/ Event /\ OpenScanModal
  \/ \E r \in Runs : Event /\ ScanNfc(r)
  \/ \E r \in Runs, ok \in BOOLEAN : Event /\ RequestSettles(r, ok)
  \/ \E r \in Runs : Event /\ GetTagFails(r)
  \/ \E r \in Runs, tag \in Tags, decodes \in BOOLEAN :
        Event /\ GetTagSettles(r, tag, decodes)

Spec == Init /\ [][Next]_vars

\* the view without the scan workflow, its handlers invoked up to MaxBatch
\* times per batch
BatchNext ==
  \/ Render
  \/ \E k \in Ids : InBatch /\ ToggleExpand(k)
  \/ \E k \in Ids : InBatch /\ ShowModal(k)
  \/ \E k \in Ids : InBatch /\ CloseModal(k)
  \/ \E k \in Ids : InBatch /\ ConfirmDelete(k)
  \/ \E k \in Ids : InBatch /\ AnimationEnd(k)
  \/ InBatch /\ InitializeNfc
  \/ \E answer \in {"yes", "no", "throw"} :
        InBatch /\ IsSupportedSettles(answer)
  \/ \E ok \in BOOLEAN : InBatch /\ StartSettles(ok)
  \/ InBatch /\ OpenScanModal

BatchSpec == Init /\ [][BatchNext]_vars

\* the view with the cards left alone: the capability check, the scan
\* trigger and the scanNfc runs
ScanNext ==
  \/ Render
  \/ Event /\ InitializeNfc
  \/ \E answer \in {"yes", "no", "throw"} :
        Event /\ IsSupportedSettles(answer)
  \/ \E ok \in BOOLEAN : Event /\ StartSettles(ok)
  \/ Event /\ OpenScanModal
  \/ \E r \in Runs : Event /\ ScanNfc(r)
  \/ \E r \in Runs, ok \in BOOLEAN : Event /\ RequestSettles(r, ok)
  \/ \E r \in Runs : Event /\ GetTagFails(r)
  \/ \E r \in Runs, tag \in Tags, decodes \in BOOLEAN :
        Event /\ GetTagSettles(r, tag, decodes)

\* the NFC service answers the pending call of the capability check
CheckAnswers ==
  \/ \E answer \in {"yes", "no", "throw"} :
        Event /\ IsSupportedSettles(answer)
  \/ \E ok \in BOOLEAN : Event /\ StartSettles(ok)

\* the NFC service answers the pending call of run r
RunAnswers(r) ==
  \/ \E ok \in BOOLEAN : Event /\ RequestSettles(r, ok)
  \/ Event /\ GetTagFails(r)
  \/ \E tag \in Tags, decodes \in BOOLEAN :
        Event /\ GetTagSettles(r, tag, decodes)

\* React renders after every handler, and the NFC service eventually
\* answers each call.  Nothing makes the user press, and nothing calls
\* scanNfc.
FairSpec ==
  /\ Init /\ [][ScanNext]_vars
  /\ WF_vars(Render)
  /\ SF_vars(CheckAnswers)
  /\ \A r \in Runs : SF_vars(RunAnswers(r))

\* ------------------------------------------------------------------ claims
\* list with the element at position i removed
RemoveAt(list, i) == SubSeq(list, 1, i - 1) \o SubSeq(list, i + 1, Len(list))

\* the ways a scanNfc run ends by an exception
Thrown == {"requestFailed", "getTagFailed", "decodeFailed"}

\* the decoder's text for the payload of the first record of tag, or the
\* placeholder if tag has no record
TextOf(tag) ==
  IF tag.hasMessage /\ Len(tag.ndefMessage) >= 1
    THEN DecodePayload(Uint8Array(tag.ndefMessage[1]))
    ELSE NoReadableData

\* the card a scan appends as the second card of the collection
SecondCard(text) ==
  [id |-> 2, title |-> "New NFC Card",
   details |-> "Card scanned successfully", nfcData |-> text]

\* C1: when the deletion callback runs with identifier K at the end of the
\* delete animation, the collection becomes the collection of just before
\* the callback with exactly one card of identifier K removed and the other
\* cards kept in order; with no card of identifier K it is unchanged.
C1_DeleteRemovesExactlyOne ==
  [][last'.op = "animationEnd" =>
       IF \E i \in 1..Len(cards) : cards[i].id = last'.del
         THEN \E i \in 1..Len(cards) :
                cards[i].id = last'.del /\ cards' = RemoveAt(cards, i)
         ELSE cards' = cards]_vars

\* C2: the step of a scanNfc run that ends a successful scan appends exactly
\* one card at the end of the collection and keeps every existing card; the
\* nfcData of the appended card is the decoder's text for the payload of the
\* first record of the tag, or 'No readable data' if the tag has no record
\* (or no record list).
C2_ScanAppendsOneCard ==
  [][last'.op = "appended" =>
       /\ Len(cards') = Len(cards) + 1
       /\ SubSeq(cards', 1, Len(cards)) = cards
       /\ cards'[Len(cards')].nfcData = TextOf(last'.tag)]_vars

\* a scan of a tag with two records has appended the card with the text 'h'
\* of the first record
C2_Witness ==
  /\ last.op = "appended"
  /\ last.tag.hasMessage /\ Len(last.tag.ndefMessage) = 2
  /\ Len(cards) = 2
  /\ cards[2].nfcData = <<104>>

\* C3: when a scanNfc run ends by an exception of the session
\* request, the tag read or the decode, the collection is the collection of
\* the moment scanNfc was called, provided deleteCard has not run meanwhile.
C3_FailedScanKeepsCollection ==
  [][\A r \in Runs :
       (last'.op \in Thrown /\ last'.arg = r /\ ~run[r].deleted)
         => cards' = run[r].before]_vars

\* C4: a scanNfc run in flight has not called cancelTechnologyRequest, a run
\* that has ended has called it exactly once, and the step that ends a run
\* (however it ends) leaves the scan-confirmation surface closed.
C4_SessionReleasedOnce ==
  [][\A r \in Runs :
       /\ run'[r].pc = "done" => run'[r].cancels = 1
       /\ run'[r].pc \in {"requestTechnology", "getTag"}
            => run'[r].cancels = 0
       /\ (run[r].pc # "done" /\ run'[r].pc = "done")
            => ~scanModalVisible']_vars

\* a run whose session request threw has ended, its session released
C4_Witness ==
  /\ last.op = "requestFailed"
  /\ run[last.arg].pc = "done"
  /\ run[last.arg].cancels = 1
  /\ ~scanModalVisible

\* C5: while isNfcSupported is false, openScanModal raises the 'not
\* supported' notice, leaves the scan-confirmation surface closed and leaves
\* the collection as it is.
C5_UnavailableNeverOpens ==
  [][(last'.op = "openScanModal" /\ ~isNfcSupported) =>
       /\ last'.notice = NotSupportedNotice
       /\ ~scanModalVisible'
       /\ cards' = cards]_vars

\* openScanModal was invoked after the check reported the capability
\* unavailable
C5_Witness ==
  /\ last.op = "openScanModal"
  /\ nfcPc = "done" /\ ~isNfcSupported
  /\ last.notice = NotSupportedNotice

\* C6: closeModal of a card sets the visibility of that card's confirmation
\* surface to false and changes nothing else: not the collection, no
\* expanded flag, no other surface, no animation, nothing of the scan state.
C6_CancelChangesOnlyVisibility ==
  [][last'.op = "closeModal" =>
       /\ modalVisible' = [modalVisible EXCEPT ![last'.arg] = FALSE]
       /\ UNCHANGED <<cards, expanded, anim, run, scanModalVisible,
                      isNfcSupported, nfcPc>>]_vars

\* the confirmation of an expanded card was cancelled while the collection
\* held two cards and a scan was in flight
C6_Witness ==
  /\ last.op = "closeModal"
  /\ expanded[last.arg] /\ ~modalVisible[last.arg]
  /\ Len(cards) = 2
  /\ \E r \in Runs : InFlight(r)

\* C7: a scanNfc run that fails (the session request throws, the tag read
\* throws, the decode throws, or the tag read returns no tag) raises the
\* 'Failed to scan NFC tag' notice.
C7_EveryFailureRaisesNotice ==
  last.op \in Thrown \cup {"noTag"} => last.notice = ScanFailedNotice

\* C8: the expanded flag of a card is true exactly when toggleExpand has
\* been invoked on it an odd number of times, also when it is invoked again
\* before the view has re-rendered.
C8_ExpandedIsParity ==
  \A k \in Ids : expanded[k] = flips[k]

\* C9: the collection starts as the seeded card with id 1; a successful scan
\* of a tag with one record then gives the seeded card followed by the card
\* with id 2 and the decoded text; a deletion of id 1 confirmed on that
\* collection then gives exactly the card with id 2.
C9_Scenario ==
  [][/\ last.op = "mount" => cards = <<SeedCard>>
     /\ ( /\ cards = <<SeedCard>>
          /\ last'.op = "appended"
          /\ last'.tag.hasMessage /\ Len(last'.tag.ndefMessage) = 1 )
        => cards' = <<SeedCard, SecondCard(TextOf(last'.tag))>>
     /\ ( /\ Len(cards) = 2 /\ cards[1] = SeedCard /\ cards[2].id = 2
          /\ last'.op = "animationEnd" /\ last'.arg = 1
          /\ anim[1].snap = cards )
        => cards' = <<cards[2]>>]_vars

\* the scenario has ended: the collection is the card with id 2 and text 'h'
C9_Witness ==
  /\ last.op = "animationEnd" /\ last.arg = 1
  /\ cards = <<SecondCard(<<104>>)>>

\* C10 as stated: the identifier of the appended card is the number of cards
\* in the collection just before the append.
C10_IdIsLengthBefore ==
  [][last'.op = "appended" => cards'[Len(cards')].id = Len(cards)]_vars

\* C10 as amended: the identifier of the appended card is the number of
\* cards in the collection just before the append plus one, that is the
\* number of cards just after it.
C10_IdIsLengthAfter ==
  [][last'.op = "appended" =>
       /\ cards'[Len(cards')].id = Len(cards) + 1
       /\ cards'[Len(cards')].id = Len(cards')]_vars

\* a scan has appended the second card, with id 2
C10_Witness ==
  /\ last.op = "appended"
  /\ Len(cards) = 2
  /\ cards[2].id = 2

\* C11: the deletion callback is invoked only by the step in which the
\* delete animation of a card runs to its end, with that card's own
\* identifier, and that step closes the card's confirmation surface; no
\* other step (a press on Yes while the animation runs included) invokes
\* it.
C11_CallbackOnlyAtAnimationEnd ==
  [][last'.del # 0 =>
       /\ last'.op = "animationEnd"
       /\ anim[last'.arg].running
       /\ last'.del = last'.arg
       /\ ~modalVisible'[last'.arg]]_vars

\* the steps of the capability check
CheckOps ==
  {"initializeNfc", "isSupported", "unsupported", "isSupportedFailed",
   "start", "startFailed"}

\* C12: the capability check is started once, from the mount; start() is
\* called at most once and only when isSupported() answered supported; the
\* capability becomes available only in the step in which start() resolves;
\* when isSupported() answers unsupported or throws, start() has not been
\* called and the capability is and stays unavailable; no step of the check
\* touches the collection, the card items or the scan workflow.
C12_CapabilityCheck ==
  [][/\ last'.op = "initializeNfc" => nfcPc = "mount"
     /\ nfcPc # "mount" => nfcPc' # "mount"
     /\ started' <= 1
     /\ started' # started => last'.op = "isSupported"
     /\ isNfcSupported' # isNfcSupported => last'.op = "start"
     /\ isNfcSupported' => (nfcPc' = "done" /\ started' = 1)
     /\ last'.op \in {"unsupported", "isSupportedFailed"}
          => (started' = 0 /\ ~isNfcSupported' /\ nfcPc' = "done")
     /\ (nfcPc = "done" /\ started = 0) => ~isNfcSupported'
     /\ last'.op \in CheckOps
          => UNCHANGED <<cards, expanded, modalVisible, anim, run,
                         scanModalVisible>>]_vars

\* isSupported() has thrown while the collection held two cards: the
\* service was not started and the capability is unavailable
C12_Witness ==
  /\ last.op = "isSupportedFailed"
  /\ nfcPc = "done" /\ started = 0 /\ ~isNfcSupported
  /\ Len(cards) = 2

\* C13: no two cards of the collection have the same identifier.
C13_IdsUnique ==
  \A i, j \in 1..Len(cards) : i # j => cards[i].id # cards[j].id

\* C14: the collection grows only in the step of a scanNfc run in which
\* getTag (after a successful session request) resolves to a tag that is
\* present; no other step makes the collection longer.
C14_GrowsOnlyOnSuccess ==
  [][Len(cards') > Len(cards) =>
       /\ last'.op = "appended"
       /\ run[last'.arg].pc = "getTag"
       /\ last'.tag.present]_vars

\* C15: whenever the scan-confirmation surface is open, eventually it is
\* closed with no scanNfc run in flight.
C15_SurfaceEventuallyCloses ==
  scanModalVisible ~> (~scanModalVisible /\ \A r \in Runs : ~InFlight(r))

\* C16: at most one scanNfc run is between its session request and its
\* release.
C16_OneSessionAtATime ==
  Cardinality({r \in Runs : InFlight(r)}) <= 1

\* C17: a step that does not call deleteCard with the identifier of a
\* scanned card keeps that card in the collection.
C17_ScannedCardStays ==
  [][\A i \in 1..Len(cards) :
       ("nfcData" \in DOMAIN cards[i] /\ last'.del # cards[i].id)
         => \E j \in 1..Len(cards') : cards'[j] = cards[i]]_vars

\* C18: the deletion callback is invoked for a card only while that card's
\* confirmation surface is open.
C18_DeletedOnlyWhileSurfaceOpen ==
  [][last'.del # 0 => modalVisible[last'.del]]_vars

====
